---- MODULE Spec2Model ----
(***************************************************************************)
(* Model of the kusion ObjectStorage module: the generator entry point     *)
(* (objectstorage_generator.go) and the AWS S3 resource generation         *)
(* (aws_s3.go, and the older sibling copy of that file).                    *)
(*                                                                         *)
(* Go values are modelled as follows.                                      *)
(*   - a Go string is a TLA+ string; the nil error is NilErr, any other     *)
(*     error is its message;                                               *)
(*   - an interface{} value held by a config map is a record               *)
(*     [t, s, i]: its dynamic type t and its string or int payload;        *)
(*   - a config map (apiv1.Accessory / apiv1.GenericConfig) is a record    *)
(*     with one field per key the module reads, Absent marking a key the   *)
(*     map does not hold, and the field nil telling the nil map;           *)
(*   - a pointer result is either a record with nil |-> TRUE or the value. *)
(***************************************************************************)
EXTENDS Naturals, Sequences, FiniteSets, TLC

VARIABLES
    objectStorage,  \* the one ObjectStorage value handed to server.Start
    env,            \* the process environment: value of AWS_REGION ("" = unset or empty)
    crashed,        \* TRUE once a panic escaped Generate into the host process
    last            \* the last call made: its inputs and what it returned

vars == <<objectStorage, env, crashed, last>>

-----------------------------------------------------------------------------
(* Go values *)

NilErr == "<nil>"

GoString(s) == [t |-> "string", s |-> s, i |-> 0]
GoInt(n)    == [t |-> "int", s |-> "", i |-> n]
GoMap       == [t |-> "map", s |-> "", i |-> 0]
Absent      == [t |-> "absent", s |-> "", i |-> 0]

Has(config, key) == config[key].t # "absent"

NilConfig == [nil |-> TRUE, type |-> Absent, bucket |-> Absent, cloud |-> Absent]

MkConfig(t, b, c) == [nil |-> FALSE, type |-> t, bucket |-> b, cloud |-> c]

\* type ObjectStorage struct { Type string; Bucket string }
ObjectStorage(t, b) == [Type |-> t, Bucket |-> b]

\* &ObjectStorage{} : the zero value
ZeroObjectStorage == ObjectStorage("", "")

awsRegionEnv == "AWS_REGION"
awsS3Bucket  == "aws_s3_bucket"

ErrEmptyCloudProviderType == "empty cloud provider type in mysql module config"
ErrEmptyModuleConfigBlock == "empty config of a module block"
ErrEmptyAWSProviderRegion == "empty aws provider region"
ErrYamlUnmarshal          == "yaml: unmarshal errors"
ErrEmptyTFProvider        == "empty terraform provider source or version"

-----------------------------------------------------------------------------
(* Inputs *)

TypeValues   == {GoString("cloud"), GoString("Cloud"), GoString("local")}
BucketValues == {GoString("b1"), GoString("b2"), GoMap}
CloudValues  == {GoString("aws"), GoString("AWS"), GoString("gcp"), GoInt(5)}

\* apiv1.Accessory: the developer's block holds the struct's keys
DevConfigs ==
    {NilConfig} \cup
    {MkConfig(t, b, Absent) : t \in TypeValues \cup {Absent},
                              b \in BucketValues \cup {Absent}}

\* apiv1.GenericConfig: the platform's block holds them and the key "cloud"
PlatformConfigs ==
    {NilConfig} \cup
    UNION {{MkConfig(t, b, c) : c \in CloudValues \cup {Absent}} :
              <<t, b>> \in (TypeValues \cup {Absent}) \X (BucketValues \cup {Absent})}

\* *module.GeneratorRequest; nil |-> TRUE is the nil pointer
NilRequest == [nil |-> TRUE, DevConfig |-> NilConfig, PlatformConfig |-> NilConfig]

Requests ==
    {NilRequest} \cup
    {[nil |-> FALSE, DevConfig |-> d, PlatformConfig |-> p] :
        d \in DevConfigs, p \in PlatformConfigs}

EnvValues == {"", "us-east-1"}

-----------------------------------------------------------------------------
(* strings.ToLower on the strings the model handles *)

ToLower(s) ==
    CASE s = "Cloud" -> "cloud"
      [] s = "AWS"   -> "aws"
      [] OTHER       -> s

-----------------------------------------------------------------------------
(* gopkg.in/yaml.v2 round trip used by CompleteConfig *)

\* yaml.Marshal of one map value: the node the document holds for it.
\* A string is written as a !!str scalar, an int as a !!int scalar of its
\* decimal text, a nested map as a mapping node.
MarshalValue(v) ==
    CASE v.t = "string" -> [kind |-> "scalar", tag |-> "!!str", value |-> v.s]
      [] v.t = "int"    -> [kind |-> "scalar", tag |-> "!!int", value |-> ToString(v.i)]
      [] v.t = "map"    -> [kind |-> "mapping", tag |-> "!!map", value |-> ""]
      [] OTHER          -> [kind |-> "none", tag |-> "", value |-> ""]

\* yaml.Marshal(config): the document, one node per key the map holds.
Marshal(config) ==
    [key \in {"type", "bucket", "cloud"} |-> MarshalValue(config[key])]

\* Decoding one node onto a string field of the struct: a scalar sets the
\* field to the scalar's text, a mapping is a type error and leaves the
\* field alone, a key the document lacks leaves the field alone.
UnmarshalField(current, node) ==
    IF node.kind = "scalar" THEN node.value ELSE current

\* yaml.Unmarshal(doc, objectStorage): only the keys "type" and "bucket"
\* match a field (the yaml tags of the struct); any other key is ignored.
\* Type errors are collected and returned after every field was decoded.
Unmarshal(doc, out) ==
    [out |-> ObjectStorage(UnmarshalField(out.Type, doc["type"]),
                           UnmarshalField(out.Bucket, doc["bucket"])),
     err |-> IF doc["type"].kind = "mapping" \/ doc["bucket"].kind = "mapping"
             THEN ErrYamlUnmarshal ELSE NilErr]

\* A plausible slip: the platform config applied first, the developer
\* config second.
CompleteConfigDevLast(receiver, devConfig, platformConfig) ==
    LET p == IF platformConfig.nil THEN [out |-> receiver, err |-> NilErr]
             ELSE Unmarshal(Marshal(platformConfig), receiver)
    IN  IF p.err # NilErr THEN p
        ELSE IF devConfig.nil THEN [out |-> p.out, err |-> NilErr]
        ELSE Unmarshal(Marshal(devConfig), p.out)

\* A plausible slip: a nil developer config treated as an error.
CompleteConfigNilFails(receiver, devConfig, platformConfig) ==
    IF devConfig.nil THEN [out |-> receiver, err |-> ErrEmptyModuleConfigBlock]
    ELSE LET d == Unmarshal(Marshal(devConfig), receiver)
         IN  IF d.err # NilErr THEN d
             ELSE IF platformConfig.nil THEN [out |-> d.out, err |-> NilErr]
             ELSE Unmarshal(Marshal(platformConfig), d.out)

\* func (objectStorage *ObjectStorage) CompleteConfig(devConfig, platformConfig) error
\* out is the receiver after the call (it is mutated in place, also when
\* the call fails).
CompleteConfig(receiver, devConfig, platformConfig) ==
    LET d == IF devConfig.nil THEN [out |-> receiver, err |-> NilErr]
             ELSE Unmarshal(Marshal(devConfig), receiver)
    IN  IF d.err # NilErr THEN d
        ELSE IF platformConfig.nil THEN [out |-> d.out, err |-> NilErr]
        ELSE Unmarshal(Marshal(platformConfig), d.out)

\* func (objectStorage *ObjectStorage) ValidateConfig() error
ValidateConfig(receiver) == NilErr

-----------------------------------------------------------------------------
(* Framework helpers called by aws_s3.go *)

\* module.ProviderConfig; Source "hashicorp/aws" is kept split at the "/".
\* ProviderMeta is a map; the nil map is [set |-> FALSE].
NilProviderMeta == [set |-> FALSE, region |-> ""]

defaultAWSProviderCfg ==
    [Source |-> <<"hashicorp", "aws">>, Version |-> "5.55.0", ProviderMeta |-> NilProviderMeta]

\* the sibling copy of aws_s3.go pins another provider version
defaultAWSProviderCfgSibling ==
    [Source |-> <<"hashicorp", "aws">>, Version |-> "5.0.1", ProviderMeta |-> NilProviderMeta]

\* module.TerraformProviderRegion(cfg): the "region" of ProviderMeta, "" when absent
TerraformProviderRegion(providerCfg) ==
    IF providerCfg.ProviderMeta.set THEN providerCfg.ProviderMeta.region ELSE ""

\* os.Getenv(name): "" for an unset variable and for an empty one
Getenv(environment, name) == IF name = awsRegionEnv THEN environment ELSE ""

\* module.TerraformResourceID(cfg, resType, resName)
TerraformResourceID(providerCfg, resType, resName) ==
    IF providerCfg.Version = "" \/ providerCfg.Source = <<>>
    THEN [id |-> "", err |-> ErrEmptyTFProvider]
    ELSE [id |-> providerCfg.Source[1] \o ":" \o providerCfg.Source[2] \o ":"
                 \o resType \o ":" \o resName,
          err |-> NilErr]

\* modules.KusionPathDependency(id, name)
KusionPathDependency(id, name) == "$kusion_path." \o id \o "." \o name

NilResource == [nil |-> TRUE]

\* module.WrapTFResourceToKusionResource(cfg, resType, id, attrs, dependsOn)
WrapTFResourceToKusionResource(providerCfg, resType, id, attrs) ==
    IF providerCfg.Version = "" \/ providerCfg.Source = <<>>
    THEN [resource |-> NilResource, err |-> ErrEmptyTFProvider]
    ELSE [resource |->
            [nil |-> FALSE,
             ID |-> id,
             Type |-> "Terraform",
             Attributes |-> attrs,
             Extensions |->
                [provider |-> "registry.terraform.io/" \o providerCfg.Source[1] \o "/"
                              \o providerCfg.Source[2] \o "/" \o providerCfg.Version,
                 providerMeta |-> providerCfg.ProviderMeta,
                 resourceType |-> resType]],
          err |-> NilErr]

-----------------------------------------------------------------------------
(* aws_s3.go *)

NilPatcher == [nil |-> TRUE]

\* func (objectStorage *ObjectStorage) generateAWSS3Bucket(awsProviderCfg, region)
\* awsProviderCfg is passed by value: setting its ProviderMeta changes the
\* callee's copy only.
generateAWSS3Bucket(receiver, awsProviderCfg, region) ==
    LET resAttrs == [bucket |-> receiver.Bucket]
        rid      == TerraformResourceID(awsProviderCfg, awsS3Bucket, receiver.Bucket)
        cfg      == [awsProviderCfg EXCEPT !.ProviderMeta = [set |-> TRUE, region |-> region]]
        wrapped  == WrapTFResourceToKusionResource(cfg, awsS3Bucket, rid.id, resAttrs)
    IN  IF rid.err # NilErr THEN [resource |-> NilResource, id |-> "", err |-> rid.err]
        ELSE IF wrapped.err # NilErr
             THEN [resource |-> NilResource, id |-> "", err |-> wrapped.err]
        ELSE [resource |-> wrapped.resource, id |-> rid.id, err |-> NilErr]

\* GenerateAWSResources after the region is resolved: the bucket resource
\* and the environment variable patcher.
BuildAWSResources(receiver, awsProviderCfg, region) ==
    LET b == generateAWSS3Bucket(receiver, awsProviderCfg, region)
        bucketDomainName         == KusionPathDependency(b.id, "bucket_domain_name")
        bucketRegionalDomainName == KusionPathDependency(b.id, "bucket_regional_domain_name")
        envVars == << [Name |-> "KUSION_AWS_S3_BUCKET_DOMAIN_NAME",
                       Value |-> bucketDomainName],
                      [Name |-> "KUSION_AWS_S3_BUCKET_REGIONAL_DOMAIN_NAME",
                       Value |-> bucketRegionalDomainName] >>
    IN  IF b.err # NilErr
        THEN [resources |-> <<>>, patcher |-> NilPatcher, err |-> b.err]
        ELSE [resources |-> <<b.resource>>,
              patcher   |-> [nil |-> FALSE, Environments |-> envVars],
              err       |-> NilErr]

\* The same step in the sibling copy of aws_s3.go: one environment variable,
\* whose value wraps a reference token in a second one.
BuildAWSResourcesSibling(receiver, awsProviderCfg, region) ==
    LET b == generateAWSS3Bucket(receiver, awsProviderCfg, region)
        hostAddress == KusionPathDependency(b.id, "address")
        envVars == << [Name |-> "KUSION_AWS_S3_BUCKET_ADDRESS",
                       Value |-> KusionPathDependency(hostAddress, "result")] >>
    IN  IF b.err # NilErr
        THEN [resources |-> <<>>, patcher |-> NilPatcher, err |-> b.err]
        ELSE [resources |-> <<b.resource>>,
              patcher   |-> [nil |-> FALSE, Environments |-> envVars],
              err       |-> NilErr]

\* The region of a call: the provider config's, else AWS_REGION.
ResolveRegion(awsProviderCfg, environment) ==
    IF TerraformProviderRegion(awsProviderCfg) = ""
    THEN Getenv(environment, awsRegionEnv)
    ELSE TerraformProviderRegion(awsProviderCfg)

\* A plausible slip: the empty region is not rejected.
GenerateAWSResourcesNoRegionCheck(receiver, request, environment) ==
    BuildAWSResources(receiver, defaultAWSProviderCfg,
                      ResolveRegion(defaultAWSProviderCfg, environment))

\* func (objectStorage *ObjectStorage) GenerateAWSResources(request)
GenerateAWSResources(receiver, request, environment) ==
    LET awsProviderCfg == defaultAWSProviderCfg
        region         == ResolveRegion(awsProviderCfg, environment)
    IN  IF region = ""
        THEN [resources |-> <<>>, patcher |-> NilPatcher, err |-> ErrEmptyAWSProviderRegion]
        ELSE BuildAWSResources(receiver, awsProviderCfg, region)

\* GenerateAWSResources of the sibling copy of aws_s3.go
GenerateAWSResourcesSibling(receiver, request, environment) ==
    LET awsProviderCfg == defaultAWSProviderCfgSibling
        region         == ResolveRegion(awsProviderCfg, environment)
    IN  IF region = ""
        THEN [resources |-> <<>>, patcher |-> NilPatcher, err |-> ErrEmptyAWSProviderRegion]
        ELSE BuildAWSResourcesSibling(receiver, awsProviderCfg, region)

-----------------------------------------------------------------------------
(* objectstorage_generator.go *)

\* A plausible slip: the two sentinel errors exchanged.
GetCloudProviderTypeSwapped(platformConfig) ==
    IF platformConfig.nil
    THEN [kind |-> "return", provider |-> "", err |-> ErrEmptyCloudProviderType]
    ELSE IF Has(platformConfig, "cloud")
         THEN IF platformConfig["cloud"].t = "string"
              THEN [kind |-> "return", provider |-> platformConfig["cloud"].s, err |-> NilErr]
              ELSE [kind |-> "panic", provider |-> "", err |-> NilErr]
         ELSE [kind |-> "return", provider |-> "", err |-> ErrEmptyModuleConfigBlock]

\* func GetCloudProviderType(platformConfig apiv1.GenericConfig) (string, error)
\* cloud.(string) panics when the value is not a string.
GetCloudProviderType(platformConfig) ==
    IF platformConfig.nil
    THEN [kind |-> "return", provider |-> "", err |-> ErrEmptyModuleConfigBlock]
    ELSE IF Has(platformConfig, "cloud")
         THEN IF platformConfig["cloud"].t = "string"
              THEN [kind |-> "return", provider |-> platformConfig["cloud"].s, err |-> NilErr]
              ELSE [kind |-> "panic", provider |-> "", err |-> NilErr]
         ELSE [kind |-> "return", provider |-> "", err |-> ErrEmptyCloudProviderType]

NilResponse == [nil |-> TRUE]

\* what a run of Generate's body ends in: a return statement or a panic
Return(resp, err, awsCalled) ==
    [kind |-> "return", resp |-> resp, err |-> err, awsCalled |-> awsCalled]

Panic(awsCalled) ==
    [kind |-> "panic", resp |-> NilResponse, err |-> NilErr, awsCalled |-> awsCalled]

\* A plausible slip: the default case of the provider switch falls through
\* to the AWS generator.
CloudBranchNoDefault(receiver, request, environment) ==
    LET p == GetCloudProviderType(request.PlatformConfig)
        g == GenerateAWSResources(receiver, request, environment)
    IN  IF p.kind = "panic" THEN Panic(FALSE)
        ELSE IF p.err # NilErr THEN Return(NilResponse, p.err, FALSE)
        ELSE IF g.err # NilErr THEN Return(NilResponse, g.err, TRUE)
        ELSE Return([nil |-> FALSE, Resources |-> g.resources, Patcher |-> g.patcher],
                    NilErr, TRUE)

\* Generate, case "cloud" of the switch on the type
CloudBranch(receiver, request, environment) ==
    LET p == GetCloudProviderType(request.PlatformConfig)
        g == GenerateAWSResources(receiver, request, environment)
    IN  IF p.kind = "panic" THEN Panic(FALSE)
        ELSE IF p.err # NilErr THEN Return(NilResponse, p.err, FALSE)
        ELSE IF ToLower(p.provider) = "aws"
             THEN IF g.err # NilErr THEN Return(NilResponse, g.err, TRUE)
                  ELSE Return([nil |-> FALSE, Resources |-> g.resources,
                               Patcher |-> g.patcher], NilErr, TRUE)
        ELSE Return(NilResponse, "unsupported cloud provider type: " \o p.provider, FALSE)

\* A plausible slip: the type compared without strings.ToLower.
TypeDispatchCaseSensitive(receiver, request, environment) ==
    IF receiver.Type = "cloud"
    THEN CloudBranch(receiver, request, environment)
    ELSE Return(NilResponse, "unsupported mysql type: " \o receiver.Type, FALSE)

\* Generate, the switch on strings.ToLower(objectStorage.Type)
TypeDispatch(receiver, request, environment) ==
    IF ToLower(receiver.Type) = "cloud"
    THEN CloudBranch(receiver, request, environment)
    ELSE Return(NilResponse, "unsupported mysql type: " \o receiver.Type, FALSE)

\* The body of Generate up to its return statement or its panic, with the
\* receiver as the body leaves it. A nil request panics at its first use.
GenerateBody(receiver, request, environment) ==
    IF request.nil
    THEN [outcome |-> Panic(FALSE), receiver |-> receiver]
    ELSE LET c == CompleteConfig(receiver, request.DevConfig, request.PlatformConfig)
         IN  IF c.err # NilErr
             THEN [outcome |-> Return(NilResponse, c.err, FALSE), receiver |-> c.out]
             ELSE IF ValidateConfig(c.out) # NilErr
                  THEN [outcome |-> Return(NilResponse, ValidateConfig(c.out), FALSE),
                        receiver |-> c.out]
             ELSE [outcome |-> TypeDispatch(c.out, request, environment),
                   receiver |-> c.out]

\* A plausible slip: no deferred recover, the panic reaches the caller.
NoRecover(outcome) ==
    [resp |-> outcome.resp, err |-> outcome.err, escaped |-> outcome.kind = "panic"]

\* The deferred function of Generate: recover() stops a panic, and the
\* function then returns the zero values of its unnamed results.
Recover(outcome) ==
    IF outcome.kind = "panic"
    THEN [resp |-> NilResponse, err |-> NilErr, escaped |-> FALSE]
    ELSE [resp |-> outcome.resp, err |-> outcome.err, escaped |-> FALSE]

\* func (objectStorage *ObjectStorage) Generate(ctx, request) (*GeneratorResponse, error)
Generate(receiver, request, environment) ==
    LET body == GenerateBody(receiver, request, environment)
        seen == Recover(body.outcome)
    IN  [resp      |-> seen.resp,
         err       |-> seen.err,
         escaped   |-> seen.escaped,
         panicked  |-> body.outcome.kind = "panic",
         awsCalled |-> body.outcome.awsCalled,
         receiver  |-> body.receiver]

-----------------------------------------------------------------------------
(* The module as the host drives it *)

NoCall == [op |-> "none"]

\* func main() { server.Start(&ObjectStorage{}) }
Init ==
    /\ objectStorage = ZeroObjectStorage
    /\ env \in EnvValues
    /\ crashed = FALSE
    /\ last = NoCall

\* The host calls Generate on the module's one ObjectStorage value.
GenerateCall ==
    /\ ~crashed /\ last = NoCall
    /\ \E request \in Requests :
         LET r == Generate(objectStorage, request, env)
         IN  /\ objectStorage' = r.receiver
             /\ crashed' = r.escaped
             /\ last' = [op |-> "Generate", request |-> request,
                         before |-> objectStorage, environment |-> env,
                         resp |-> r.resp, err |-> r.err, panicked |-> r.panicked,
                         awsCalled |-> r.awsCalled]
    /\ UNCHANGED env

\* CompleteConfig applied to a copy of the module's value.
CompleteConfigCall ==
    /\ ~crashed /\ last = NoCall
    /\ \E d \in DevConfigs, p \in PlatformConfigs :
         LET c == CompleteConfig(objectStorage, d, p)
         IN  last' = [op |-> "CompleteConfig", devConfig |-> d, platformConfig |-> p,
                      before |-> objectStorage, after |-> c.out, err |-> c.err]
    /\ UNCHANGED <<objectStorage, env, crashed>>

\* GetCloudProviderType applied to a platform config.
GetCloudProviderTypeCall ==
    /\ ~crashed /\ last = NoCall
    /\ \E p \in PlatformConfigs :
         LET g == GetCloudProviderType(p)
         IN  last' = [op |-> "GetCloudProviderType", platformConfig |-> p,
                      panicked |-> g.kind = "panic", provider |-> g.provider,
                      err |-> g.err]
    /\ UNCHANGED <<objectStorage, env, crashed>>

\* GenerateAWSResources, of either copy of aws_s3.go, applied to the
\* module's value under the current environment.
GenerateAWSResourcesCall ==
    /\ ~crashed /\ last = NoCall
    /\ \E copy \in {"aws_s3", "sibling"} :
         LET g == IF copy = "aws_s3"
                  THEN GenerateAWSResources(objectStorage, NilRequest, env)
                  ELSE GenerateAWSResourcesSibling(objectStorage, NilRequest, env)
         IN  last' = [op |-> "GenerateAWSResources", copy |-> copy,
                      receiver |-> objectStorage, environment |-> env,
                      resources |-> g.resources, patcher |-> g.patcher, err |-> g.err]
    /\ UNCHANGED <<objectStorage, env, crashed>>

\* The environment of the process changes between calls.
Setenv ==
    /\ ~crashed /\ last = NoCall
    /\ \E v \in EnvValues : env' = v
    /\ UNCHANGED <<objectStorage, crashed, last>>

\* The caller takes the result of the call; the next call starts after it
\* (calls are synchronous, one at a time).
Respond ==
    /\ last # NoCall
    /\ last' = NoCall
    /\ UNCHANGED <<objectStorage, env, crashed>>

Next ==
    \/ GenerateCall
    \/ CompleteConfigCall
    \/ GetCloudProviderTypeCall
    \/ GenerateAWSResourcesCall
    \/ Setenv
    \/ Respond

Spec == Init /\ [][Next]_vars

-----------------------------------------------------------------------------
(* Properties *)

\* The receiver as CompleteConfig left it in the last Generate call, and
\* whether that completion succeeded.
Completed == CompleteConfig(last.before, last.request.DevConfig, last.request.PlatformConfig)

GenerateCompleted ==
    /\ last.op = "Generate"
    /\ ~last.request.nil
    /\ Completed.err = NilErr

\* C1: when CompleteConfig returns without error, a key (type or bucket)
\* set in both configs holds the platform value, and a key set only in the
\* developer config holds the developer value.
C1_PlatformWins ==
    (last.op = "CompleteConfig" /\ last.err = NilErr) =>
        LET d == last.devConfig
            p == last.platformConfig
        IN  /\ (Has(d, "type") /\ Has(p, "type")) => last.after.Type = p["type"].s
            /\ (Has(d, "bucket") /\ Has(p, "bucket")) => last.after.Bucket = p["bucket"].s
            /\ (Has(d, "type") /\ ~Has(p, "type")) => last.after.Type = d["type"].s
            /\ (Has(d, "bucket") /\ ~Has(p, "bucket")) => last.after.Bucket = d["bucket"].s

\* C1 happens: both configs set type and bucket to different values, and
\* the completion succeeded.
C1_Witness ==
    /\ last.op = "CompleteConfig"
    /\ last.err = NilErr
    /\ Has(last.devConfig, "type") /\ Has(last.platformConfig, "type")
    /\ last.devConfig["type"] # last.platformConfig["type"]
    /\ Has(last.devConfig, "bucket") /\ Has(last.platformConfig, "bucket")
    /\ last.devConfig["bucket"] # last.platformConfig["bucket"]
    /\ last.after.Type = last.platformConfig["type"].s

\* C2: every Generate call ends either with a response and a nil error or
\* with a nil response and an error.
C2_AllOrNothing ==
    last.op = "Generate" =>
        \/ (~last.resp.nil /\ last.err = NilErr /\ ~last.resp.Patcher.nil
            /\ Len(last.resp.Resources) > 0)
        \/ (last.resp.nil /\ last.err # NilErr)

\* C3: a Generate call returns what it would return as the first call on
\* a fresh ObjectStorage value.
C3_RequestScoped ==
    last.op = "Generate" =>
        LET first == Generate(ZeroObjectStorage, last.request, last.environment)
        IN  /\ last.resp = first.resp
            /\ last.err = first.err

\* C4: a request whose completed Type is not "cloud" up to letter case fails
\* with the unsupported type error naming that Type, with no response and no
\* call of the AWS generator; a Type equal to "cloud" up to letter case does
\* not end in that error.
C4_UnsupportedType ==
    GenerateCompleted =>
        /\ ToLower(objectStorage.Type) # "cloud" =>
              /\ last.err = "unsupported mysql type: " \o objectStorage.Type
              /\ last.resp = NilResponse
              /\ ~last.awsCalled
        /\ ToLower(objectStorage.Type) = "cloud" =>
              last.err # "unsupported mysql type: " \o objectStorage.Type

\* C4 happens: a call whose completed Type is "local".
C4_Witness ==
    /\ GenerateCompleted
    /\ objectStorage.Type = "local"
    /\ last.err = "unsupported mysql type: local"
    /\ last.resp = NilResponse

\* C5: with a completed Type of "cloud" and a string under the platform key
\* "cloud" that is not "aws" up to letter case, Generate fails with an error
\* naming that string, returns no response and does not call
\* GenerateAWSResources.
C5_UnsupportedProvider ==
    (/\ GenerateCompleted
     /\ ToLower(objectStorage.Type) = "cloud"
     /\ last.request.PlatformConfig["cloud"].t = "string"
     /\ ToLower(last.request.PlatformConfig["cloud"].s) # "aws") =>
        /\ last.err = "unsupported cloud provider type: "
                      \o last.request.PlatformConfig["cloud"].s
        /\ last.resp = NilResponse
        /\ ~last.awsCalled

\* C5 happens: Type "cloud" with the provider "gcp".
C5_Witness ==
    /\ GenerateCompleted
    /\ objectStorage.Type = "cloud"
    /\ last.request.PlatformConfig["cloud"] = GoString("gcp")
    /\ last.err = "unsupported cloud provider type: gcp"

\* C6: GenerateAWSResources with a non-empty Bucket and a non-empty region
\* returns one aws_s3_bucket resource with that bucket, and a patcher with
\* the two domain name variables, in order, referring to that resource.
C6_BucketAndPatcher ==
    (/\ last.op = "GenerateAWSResources"
     /\ last.receiver.Bucket # ""
     /\ last.environment # "") =>
        /\ last.err = NilErr
        /\ Len(last.resources) = 1
        /\ last.resources[1].Extensions.resourceType = awsS3Bucket
        /\ last.resources[1].Attributes = [bucket |-> last.receiver.Bucket]
        /\ ~last.patcher.nil
        /\ last.patcher.Environments =
              << [Name |-> "KUSION_AWS_S3_BUCKET_DOMAIN_NAME",
                  Value |-> KusionPathDependency(last.resources[1].ID,
                                                 "bucket_domain_name")],
                 [Name |-> "KUSION_AWS_S3_BUCKET_REGIONAL_DOMAIN_NAME",
                  Value |-> KusionPathDependency(last.resources[1].ID,
                                                 "bucket_regional_domain_name")] >>

\* Every resource of a sequence carries a non-empty region.
RegionsSet(resources) ==
    \A n \in DOMAIN resources :
        /\ resources[n].Extensions.providerMeta.set
        /\ resources[n].Extensions.providerMeta.region # ""

\* C7: with no region in the provider config and AWS_REGION unset or empty,
\* GenerateAWSResources fails with the empty region error and builds
\* nothing; every resource returned, by it or by Generate, in any call of a
\* sequence, carries a non-empty region.
C7_RegionRequired ==
    /\ last.op = "GenerateAWSResources" =>
          /\ (/\ TerraformProviderRegion(defaultAWSProviderCfg) = ""
              /\ TerraformProviderRegion(defaultAWSProviderCfgSibling) = ""
              /\ last.environment = "") =>
                 /\ last.err = ErrEmptyAWSProviderRegion
                 /\ last.resources = <<>>
                 /\ last.patcher = NilPatcher
          /\ RegionsSet(last.resources)
    /\ (last.op = "Generate" /\ ~last.resp.nil) => RegionsSet(last.resp.Resources)

\* C7 happens: a call that fails for the empty region, on a module value
\* whose bucket an earlier request set.
C7_Witness ==
    /\ last.op = "GenerateAWSResources"
    /\ last.copy = "aws_s3"
    /\ last.environment = ""
    /\ last.receiver.Bucket # ""
    /\ last.err = ErrEmptyAWSProviderRegion

\* C8: GetCloudProviderType returns the empty module config block error for
\* a nil platform config, the empty cloud provider type error for one
\* without the key "cloud", both with the provider "", and the string under
\* the key with no error otherwise.
C8_GetCloudProviderType ==
    last.op = "GetCloudProviderType" =>
        LET p == last.platformConfig
        IN  /\ p.nil =>
                 /\ ~last.panicked
                 /\ last.err = ErrEmptyModuleConfigBlock
                 /\ last.provider = ""
            /\ (~p.nil /\ ~Has(p, "cloud")) =>
                 /\ ~last.panicked
                 /\ last.err = ErrEmptyCloudProviderType
                 /\ last.provider = ""
            /\ (~p.nil /\ p["cloud"].t = "string") =>
                 /\ ~last.panicked
                 /\ last.err = NilErr
                 /\ last.provider = p["cloud"].s

\* C8 happens: a platform config that sets other keys and not "cloud".
C8_Witness ==
    /\ last.op = "GetCloudProviderType"
    /\ ~last.platformConfig.nil
    /\ Has(last.platformConfig, "type")
    /\ ~Has(last.platformConfig, "cloud")
    /\ last.err = ErrEmptyCloudProviderType

\* C9: CompleteConfig with both configs nil returns no error and leaves the
\* receiver as it was, so a zero value stays the zero value.
C9_BothNil ==
    (last.op = "CompleteConfig" /\ last.devConfig.nil /\ last.platformConfig.nil) =>
        /\ last.err = NilErr
        /\ last.after = last.before
        /\ last.before = ZeroObjectStorage => last.after = ZeroObjectStorage

\* C9 happens: the call on the zero value.
C9_Witness ==
    /\ last.op = "CompleteConfig"
    /\ last.devConfig.nil /\ last.platformConfig.nil
    /\ last.before = ZeroObjectStorage
    /\ last.after = ZeroObjectStorage
    /\ last.err = NilErr

\* C10: no panic of Generate reaches the host; the call that panicked
\* returns a nil response, and once its result is taken the module accepts
\* the next Generate call.
C10_PanicRecovered ==
    /\ ~crashed
    /\ (last.op = "Generate" /\ last.panicked) => last.resp = NilResponse
    /\ last = NoCall => ENABLED GenerateCall

\* C10 happens: Type "cloud" with a non-string value under the key "cloud".
C10_Witness ==
    /\ last.op = "Generate"
    /\ last.panicked
    /\ ~last.request.nil
    /\ ToLower(objectStorage.Type) = "cloud"
    /\ last.request.PlatformConfig["cloud"].t = "int"
    /\ last.resp = NilResponse
    /\ ~crashed

====
